---- MODULE Spec2Model ----
(***************************************************************************)
(* The AI health and fitness planner (health_agent.py): a Streamlit script *)
(* that is re-run from top to bottom on every user interaction.  Two       *)
(* variants of the script are modelled: the latest one (src/health_agent.py*)
(* with command-line flags and a key loaded from secrets/environment) and  *)
(* the earlier one (sidebar only).  One script run is a chain of steps     *)
(* (pc): load the key, start main, select the configuration, initialise    *)
(* the model, the API test button, the generate button, the follow-up      *)
(* button.  The model backend (phi Agent/Gemini/OpenAIChat) is external:   *)
(* its constructors and its run() calls are nondeterministic.              *)
(*                                                                         *)
(* Python strings are sequences of one-character strings; Python's None is *)
(* the value NoneVal.                                                      *)
(***************************************************************************)
EXTENDS Integers, Sequences, FiniteSets, TLC

(***************************************************************************)
(* Bounds of the model.                                                    *)
(***************************************************************************)
\* script runs (user interactions) explored in one session
MaxRuns == 3
\* script runs explored for each of the ways the process may be started
MaxConfigRuns == 2
\* length of the texts tried in the base URL field
MaxUrlLen == 4

(***************************************************************************)
(* Python values.                                                          *)
(***************************************************************************)
NoneVal == <<"<None>">>

EmptyStr == <<>>

\* Python truthiness of an Optional[str]: None and "" are falsy
Truthy(v) == v # NoneVal /\ v # EmptyStr

\* str(v) inside an f-string
Fmt(v) == IF v = NoneVal THEN <<"N", "o", "n", "e">> ELSE v

\* s[:n]
Take(s, n) == IF Len(s) <= n THEN s ELSE SubSeq(s, 1, n)

\* sub in s
Contains(s, sub) ==
    \E i \in 0..(Len(s) - Len(sub)) : SubSeq(s, i + 1, i + Len(sub)) = sub

IsWhitespace(c) == c \in {" ", "\t", "\n"}

RECURSIVE LStrip(_)
LStrip(s) == IF s # <<>> /\ IsWhitespace(Head(s)) THEN LStrip(Tail(s)) ELSE s

RECURSIVE RStrip(_)
RStrip(s) ==
    IF s # <<>> /\ IsWhitespace(s[Len(s)]) THEN RStrip(SubSeq(s, 1, Len(s) - 1)) ELSE s

\* s.strip()
Strip(s) == RStrip(LStrip(s))

\* s.replace(c, "")
RECURSIVE RemoveChar(_, _)
RemoveChar(s, c) ==
    IF s = <<>> THEN <<>>
    ELSE IF Head(s) = c THEN RemoveChar(Tail(s), c)
    ELSE <<Head(s)>> \o RemoveChar(Tail(s), c)

\* s.endswith(c)
EndsWith(s, c) == s # <<>> /\ s[Len(s)] = c

\* str(n) for a natural number
RECURSIVE Digits(_)
Digits(n) ==
    LET d == <<"0", "1", "2", "3", "4", "5", "6", "7", "8", "9">>
    IN  IF n < 10 THEN <<d[n + 1]>> ELSE Digits(n \div 10) \o <<d[(n % 10) + 1]>>

\* str(x) for a float with one decimal, held in tenths
Float1(t) == Digits(t \div 10) \o <<".">> \o Digits(t % 10)

\* dict.get(key, default) on a plan mapping
Get(d, k, default) == IF k \in DOMAIN d THEN d[k] ELSE default

\* the empty dict {}
EmptyDict == [k \in {} |-> <<>>]

(***************************************************************************)
(* Program constants.  Long literals of the source are abbreviated to a    *)
(* few characters; the literal is given beside each.                       *)
(***************************************************************************)
\* "Gemini"
Gemini == <<"G", "e", "m">>
\* "OpenAI"
OpenAI == <<"O", "A", "I">>
\* "gemini-2.5-flash-preview-05-20"
GeminiFlash == <<"g", "f">>
\* "gpt-4o"
Gpt4o == <<"4", "o">>
\* "deepseek-v3" (the select box option)
DeepseekOption == <<"d", "s">>
\* "deepseek-v3-241226-volces"
DeepseekVolces == <<"d", "s", "-", "v">>
\* "glm" (the select box option)
GlmOption == <<"g", "l", "m">>
\* "glm-4-flash"
GlmFlash == <<"g", "l", "m", "-", "4">>
\* "https://api.openai.com/v1"
OpenAIUrl == <<"o", "/", "v", "1">>
\* "https://aistudio.google.com/apikey"
AiStudioUrl == <<"a", "/", "k">>
\* " @https://proxy/v1 ", a URL pasted with stray characters
StrayUrl == <<" ", "@", "p", "/", "v", "1", " ">>
\* "EMPTY", the default of --api_key
EmptyFlag == <<"E", "M", "P", "T", "Y">>
\* the slice length of api_key_to_use[:10]
KeyPrefixLen == 10
\* max_tokens=2000
MaxTokens == 2000
\* temperature=0.7, in tenths
TemperatureTenths == 7

\* an API key of twelve characters whose first character names its origin
MkKey(c) == <<c, "k", "k", "k", "k", "k", "k", "k", "k", "k", "k", "k">>
\* the key of secrets.toml, of $API_KEY, of $OPENAI_API_KEY, of --api_key, of the sidebar
KeyS == MkKey("S")
KeyE == MkKey("E")
KeyO == MkKey("O")
KeyA == MkKey("A")
KeyU == MkKey("U")
Keys == {KeyS, KeyE, KeyO, KeyA, KeyU}

\* Exception("饮食计划生成失败，API 响应为空")
DietaryEmptyMsg == <<"d", "i", "e", "t", " ", "e", "m", "p", "t", "y">>
\* Exception("健身计划生成失败，API 响应为空")
FitnessEmptyMsg == <<"f", "i", "t", " ", "e", "m", "p", "t", "y">>
\* "抱歉，目前无法生成回应。"
ApologyAnswer == <<"s", "o", "r", "r", "y">>
\* the message of TypeError: 'NoneType' object is not subscriptable
TypeErrorMsg == <<"T", "y", "p", "e", "E", "r", "r">>
\* "Hello, this is a test."
TestPrompt == <<"H", "e", "l", "l", "o">>

(***************************************************************************)
(* Inputs: what the environment may supply.                                *)
(***************************************************************************)
\* messages of the exceptions the backend library may raise
Msgs ==
    { <<"4", "0", "0", " ", "T", "i", "m", "e", "o", "u", "t">>,
      <<"C", "o", "n", "n", "e", "c", "t", "i", "o", "n">>,
      <<"I", "n", "v", "a", "l", "i", "d", "R", "e", "q", "u", "e", "s", "t">> }

\* the content attribute of a response
Contents == {NoneVal, EmptyStr, <<"A">>}

\* what Agent.run may do: raise, return None, return an object without a
\* content attribute, return a response with a content attribute
Replies ==
    [kind : {"raise"}, val : Msgs] \cup [kind : {"none", "nocontent"}, val : {EmptyStr}]
        \cup [kind : {"content"}, val : Contents]

\* what a model constructor may do
Constructions == [kind : {"raise"}, val : Msgs] \cup [kind : {"ok"}, val : {EmptyStr}]

\* the profile form: age (years), weight and height (tenths), the selects
Profiles ==
    { [age |-> 30, weight |-> 700, height |-> 1750, sex |-> <<"M">>,
       activity_level |-> <<"m", "i", "d">>, dietary_preferences |-> <<"g", "f">>,
       fitness_goals |-> <<"g", "a", "i", "n">>],
      [age |-> 18, weight |-> 300, height |-> 1500, sex |-> <<"F">>,
       activity_level |-> <<"l", "o", "w">>, dietary_preferences |-> <<"v", "e", "g">>,
       fitness_goals |-> <<"l", "o", "s", "e">>] }

\* the question text input
Questions == {EmptyStr, <<"q", "?">>, <<"w", "?">>}

\* the four buttons of the page: at most one is pressed in a run
Buttons == {"none", "test_api", "generate", "follow_up"}

\* what secrets.toml, $API_KEY and $OPENAI_API_KEY may hold (NoneVal: not set)
SecretsValues == {NoneVal, EmptyStr, KeyS}
EnvApiKeyValues == {NoneVal, EmptyStr, KeyE}
EnvOpenAIKeyValues == {NoneVal, KeyO}

\* args_parse(): the defaults, and a command line that sets every flag
DefaultArgs ==
    [model_provider |-> Gemini, model_name |-> GeminiFlash, base_url |-> OpenAIUrl,
     api_key |-> EmptyFlag]
ArgsValues ==
    { [type |-> t, model_provider |-> a.model_provider, model_name |-> a.model_name,
       base_url |-> a.base_url, api_key |-> a.api_key] :
         t \in {1, 2},
         a \in { DefaultArgs,
                 [model_provider |-> OpenAI, model_name |-> Gpt4o, base_url |-> StrayUrl,
                  api_key |-> KeyA] } }

\* the sidebar's widgets
SidebarProviders == {Gemini, OpenAI}
SidebarKeys == {EmptyStr, KeyU}
SidebarUrls(provider) == IF provider = Gemini THEN {AiStudioUrl} ELSE {StrayUrl}
SidebarModels(provider) == IF provider = Gemini THEN {GeminiFlash} ELSE {DeepseekOption}

(***************************************************************************)
(* State.                                                                  *)
(***************************************************************************)
VARIABLES
    variant,        \* which script is deployed: "latest" or "earlier"
    args,           \* the parsed command line (latest variant)
    secrets,        \* st.secrets["api_keys"]["API_KEY"], NoneVal when not there
    environ,        \* os.environ: API_KEY and OPENAI_API_KEY
    session_state,  \* st.session_state: lives across the runs of a session
    app_log,        \* the lines of app.log (timestamps dropped)
    logs_file,      \* the lines of the file "logs"
    runs,           \* script runs started so far
    pc,             \* where the current script run is
    pressed,        \* the button whose press started this run
    api_key,        \* the module-level api_key of this run
    cfg,            \* model_provider, model_name, base_url, api_key_to_use
    model,          \* the backend client built in this run
    ui,             \* what this run has put on the page
    requests,       \* the Agent.run calls of this run, in order
    responses,      \* what each of these calls did: raised, or what it returned
    run_log,        \* the lines this run has written to app.log
    handled,        \* how each handler of this run ended
    pre             \* st.session_state as it was when this run started

vars ==
    <<variant, args, secrets, environ, session_state, app_log, logs_file, runs, pc,
      pressed, api_key, cfg, model, ui, requests, responses, run_log, handled, pre>>

process == <<variant, args, secrets, environ>>

\* A line of a log: the call that wrote it and, for the lines that interpolate a
\* part of the model configuration, that value.  The other interpolated texts (the
\* time, the profile, the text and the traceback of an exception) are not kept.
Entry(tag, arg) == [tag |-> tag, arg |-> arg]

\* logging.info / logging.error: the lines go to app.log
Logged(entries) ==
    /\ app_log' = app_log \cup entries
    /\ run_log' = run_log \cup entries

\* st.error, st.warning, st.info, st.success, st.write, ...: elements of the page
Shown(elements) == ui' = ui \cup elements

NoCfg ==
    [model_provider |-> NoneVal, model_name |-> NoneVal, base_url |-> NoneVal,
     api_key_to_use |-> NoneVal]

\* model = None
NoModel == [kind |-> "None"]

NoHandler == [init |-> "skip", test |-> "skip", generate |-> "skip", follow_up |-> "skip"]

NoEnviron == [API_KEY |-> NoneVal, OPENAI_API_KEY |-> NoneVal]

Flags(t, a) ==
    [type |-> t, model_provider |-> a.model_provider, model_name |-> a.model_name,
     base_url |-> a.base_url, api_key |-> a.api_key]

\* the earlier variant reads no command line, no secrets file and no environment
EarlierDeployment ==
    [variant |-> "earlier", args |-> Flags(2, DefaultArgs), secrets |-> NoneVal,
     environ |-> NoEnviron]

\* every way the process may be started
AllDeployments ==
    [variant : {"latest"}, args : ArgsValues, secrets : SecretsValues,
     environ : [API_KEY : EnvApiKeyValues, OPENAI_API_KEY : EnvOpenAIKeyValues]]
      \cup {EarlierDeployment}

\* the deployments whose sessions are explored run after run: the latest variant
\* started with its defaults and a key in secrets.toml, the latest variant with the
\* sidebar, the earlier variant
SessionDeployments ==
    { [variant |-> "latest", args |-> Flags(1, DefaultArgs), secrets |-> KeyS,
       environ |-> NoEnviron],
      [variant |-> "latest", args |-> Flags(2, DefaultArgs), secrets |-> NoneVal,
       environ |-> NoEnviron],
      EarlierDeployment }

\* the process has started and no script run has happened yet
Started(d) ==
    /\ variant = d.variant
    /\ args = d.args
    /\ secrets = d.secrets
    /\ environ = d.environ
    /\ session_state = EmptyDict
    /\ app_log = {}
    /\ logs_file = {}
    /\ runs = 0
    /\ pc = "idle"
    /\ pressed = "none"
    /\ api_key = NoneVal
    /\ cfg = NoCfg
    /\ model = NoModel
    /\ ui = {}
    /\ requests = <<>>
    /\ responses = <<>>
    /\ run_log = {}
    /\ handled = NoHandler
    /\ pre = EmptyDict

Init == \E d \in SessionDeployments : Started(d)

InitConfig == \E d \in AllDeployments : Started(d)

(***************************************************************************)
(* A user interaction: Streamlit runs the script again from its top.  At   *)
(* most one button is the cause of a run.                                  *)
(***************************************************************************)
Rerun(limit) ==
    /\ pc = "idle"
    /\ runs < limit
    /\ runs' = runs + 1
    /\ pressed' \in Buttons
    /\ pc' = IF variant = "latest" THEN "load_key" ELSE "main"
    /\ api_key' = NoneVal
    /\ cfg' = NoCfg
    /\ model' = NoModel
    /\ ui' = {}
    /\ requests' = <<>>
    /\ responses' = <<>>
    /\ run_log' = {}
    /\ handled' = NoHandler
    /\ pre' = session_state
    /\ UNCHANGED <<process, session_state, app_log, logs_file>>

(***************************************************************************)
(* Module level of the latest variant: the key of secrets.toml when there  *)
(* is one, else $API_KEY or $OPENAI_API_KEY.                               *)
(***************************************************************************)
\* os.getenv("API_KEY") or os.getenv("OPENAI_API_KEY")
EnvKey(env) == IF Truthy(env.API_KEY) THEN env.API_KEY ELSE env.OPENAI_API_KEY

\* a slip: the environment is asked first, the secrets file last
LoadedApiKeyEnvFirst(sec, env) == IF Truthy(EnvKey(env)) THEN EnvKey(env) ELSE sec

LoadedApiKey(sec, env) == IF sec # NoneVal THEN sec ELSE EnvKey(env)

LoadApiKey ==
    /\ pc = "load_key"
    /\ api_key' = LoadedApiKey(secrets, environ)
    /\ Logged({ IF secrets # NoneVal THEN Entry("secrets_key_loaded", EmptyStr)
                ELSE IF ~Truthy(EnvKey(environ)) THEN Entry("no_key_configured", EmptyStr)
                ELSE Entry("env_key_loaded", EmptyStr) })
    /\ pc' = "main"
    /\ UNCHANGED <<process, session_state, logs_file, runs, pressed, cfg, model, ui,
                   requests, responses, handled, pre>>

(***************************************************************************)
(* main(): the start-up line, and the session state on the first run.      *)
(***************************************************************************)
NewSession ==
    [dietary_plan |-> EmptyDict, fitness_plan |-> EmptyDict, qa_pairs |-> <<>>,
     plans_generated |-> FALSE]

SessionMissing(st) == "dietary_plan" \notin DOMAIN st

StartMain ==
    /\ pc = "main"
    /\ IF SessionMissing(session_state)
       THEN /\ session_state' = NewSession
            /\ Logged({Entry("startup", EmptyStr), Entry("session_initialised", EmptyStr)})
       ELSE /\ session_state' = session_state
            /\ Logged({Entry("startup", EmptyStr)})
    /\ pc' = "config"
    /\ UNCHANGED <<process, logs_file, runs, pressed, api_key, cfg, model, ui, requests,
                   responses, handled, pre>>

(***************************************************************************)
(* The configuration of the run: the command line and the module-level key *)
(* (latest variant, --type 1), or the sidebar.                             *)
(***************************************************************************)
Elem(kind, arg) == [kind |-> kind, arg |-> arg]

\* the OpenAI select box: two options stand for longer model identifiers
SidebarModelName(choice) ==
    IF choice = DeepseekOption THEN DeepseekVolces
    ELSE IF choice = GlmOption THEN GlmFlash
    ELSE choice

\* display_sidebar(): four None when the key field is empty
display_sidebar(provider, key, url, choice) ==
    IF ~Truthy(key) THEN NoCfg
    ELSE [model_provider |-> provider,
          model_name |-> IF provider = OpenAI THEN SidebarModelName(choice) ELSE choice,
          base_url |-> url, api_key_to_use |-> key]

\* the sidebar written inline in main() of the earlier variant: Gemini has no URL field
EarlierSidebar(provider, key, url, choice) ==
    [model_provider |-> provider,
     model_name |-> IF provider = OpenAI THEN SidebarModelName(choice) ELSE choice,
     base_url |-> IF provider = OpenAI THEN url ELSE NoneVal, api_key_to_use |-> key]

\* args.type == 1: the provider is Gemini, the key is the module-level api_key
FlagsCfg(a, key) ==
    [model_provider |-> Gemini, model_name |-> a.model_name, base_url |-> a.base_url,
     api_key_to_use |-> key]

SidebarElems(provider, key) ==
    IF ~Truthy(key) THEN {Elem("warning", <<"k", "e", "y", "?">>)}
    ELSE {Elem("success", provider)}

ConfigEntries(c) ==
    { Entry("model_provider", Fmt(c.model_provider)), Entry("model_name", Fmt(c.model_name)),
      Entry("base_url", Fmt(c.base_url)), Entry("api_key", Fmt(c.api_key_to_use)) }

SelectConfig ==
    /\ pc = "config"
    /\ \E provider \in SidebarProviders, key \in SidebarKeys :
         \E url \in SidebarUrls(provider), choice \in SidebarModels(provider) :
            IF variant = "latest"
            THEN /\ IF args.type = 1
                    THEN /\ cfg' = FlagsCfg(args, api_key)
                         /\ ui' = ui
                    ELSE /\ cfg' = display_sidebar(provider, key, url, choice)
                         /\ Shown(SidebarElems(provider, key))
                 /\ Logged(ConfigEntries(cfg'))
                 /\ pc' = "init"
            ELSE /\ Shown(SidebarElems(provider, key))
                 /\ UNCHANGED <<app_log, run_log>>
                 /\ IF ~Truthy(key)
                    THEN cfg' = cfg /\ pc' = "idle"
                    ELSE cfg' = EarlierSidebar(provider, key, url, choice) /\ pc' = "init"
    /\ UNCHANGED <<process, session_state, logs_file, runs, pressed, api_key, model,
                   requests, responses, handled, pre>>

(***************************************************************************)
(* The try block that builds the backend client.                           *)
(***************************************************************************)
\* base_url.strip().replace("@", ""), with a "/" appended when it does not end in one
clean_base_url(url) ==
    LET c == RemoveChar(Strip(url), "@")
    IN  IF ~EndsWith(c, "/") THEN c \o <<"/">> ELSE c

\* Gemini(id=model_name, api_key=api_key_to_use): the key is not looked at
GeminiClient(c) == [kind |-> "Gemini", id |-> c.model_name, api_key |-> c.api_key_to_use]

OpenAIChatClient(c) ==
    [kind |-> "OpenAIChat", id |-> c.model_name, api_key |-> c.api_key_to_use,
     base_url |-> clean_base_url(c.base_url), max_tokens |-> MaxTokens,
     temperature |-> TemperatureTenths]

\* the advice shown with an initialisation error
InitAdvice(msg) ==
    IF Contains(msg, <<"4", "0", "0">>)
         \/ Contains(msg, <<"I", "n", "v", "a", "l", "i", "d", "R", "e", "q", "u", "e", "s", "t">>)
    THEN {Elem("warning", <<"a", "p", "i">>)}
    ELSE IF Contains(msg, <<"M", "o", "d", "u", "l", "e", "N", "o", "t", "F", "o", "u", "n", "d",
                            "E", "r", "r", "o", "r">>)
    THEN {Elem("warning", <<"d", "e", "p", "s">>)}
    ELSE {}

\* the lines and the page elements of the except branch
InitFailureEntries(provider, msg) ==
    { Entry("init_failed", Fmt(provider)), Entry("init_error_msg", EmptyStr),
      Entry("init_traceback", EmptyStr) }

InitFailureElems(provider, msg) ==
    { Elem("error", Fmt(provider)), Elem("error", msg), Elem("code", msg) } \cup InitAdvice(msg)

\* what is logged and shown before the constructor is called
InitEntries(c) ==
    IF c.model_provider = Gemini THEN {Entry("gemini_init", Fmt(c.model_name))}
    ELSE { Entry("openai_init", EmptyStr), Entry("openai_model_name", Fmt(c.model_name)),
           Entry("openai_base_url", Fmt(c.base_url)),
           Entry("api_key_prefix", Take(c.api_key_to_use, KeyPrefixLen)) }

InitElems(c) ==
    IF c.model_provider = Gemini
    THEN IF variant = "earlier" THEN {Elem("info", Fmt(c.model_name))} ELSE {}
    ELSE {Elem("info", Fmt(c.model_name)), Elem("info", Fmt(c.base_url))}

InitModel ==
    /\ pc = "init"
    /\ IF cfg.model_provider \in {Gemini, OpenAI}
       THEN \E c \in Constructions :
              IF c.kind = "ok"
              THEN /\ model' = IF cfg.model_provider = Gemini THEN GeminiClient(cfg)
                               ELSE OpenAIChatClient(cfg)
                   /\ Logged(InitEntries(cfg) \cup {Entry("init_ok", cfg.model_provider)})
                   /\ Shown(InitElems(cfg))
                   /\ handled' = [handled EXCEPT !.init = "ok"]
                   /\ pc' = IF cfg.model_provider = OpenAI THEN "test_api" ELSE "check_model"
              ELSE /\ model' = model
                   /\ Logged(InitEntries(cfg)
                               \cup InitFailureEntries(cfg.model_provider, c.val))
                   /\ Shown(InitElems(cfg) \cup InitFailureElems(cfg.model_provider, c.val))
                   /\ handled' = [handled EXCEPT !.init = "raised"]
                   /\ pc' = "idle"
       ELSE /\ pc' = "check_model"
            /\ UNCHANGED <<model, app_log, run_log, ui, handled>>
    /\ UNCHANGED <<process, session_state, logs_file, runs, pressed, api_key, cfg,
                   requests, responses, pre>>

(***************************************************************************)
(* The API test button of the OpenAI branch.                               *)
(***************************************************************************)
\* the slice length of test_response.content[:100]
TestEchoLen == 100

Request(agent, prompt) == [agent |-> agent, prompt |-> prompt, model |-> model]

\* test_response and hasattr(test_response, "content")
HasContent(r) == r.kind = "content"

TestApiOutcome(r) ==
    IF r.kind = "raise" THEN "raised"
    ELSE IF ~HasContent(r) THEN "empty"
    ELSE IF r.val = NoneVal THEN "raised"
    ELSE "ok"

TestApiElems(r) ==
    IF r.kind = "raise" THEN {Elem("error", r.val)}
    ELSE IF ~HasContent(r) THEN {Elem("error", <<"e", "m", "p", "t", "y">>)}
    ELSE IF r.val = NoneVal
    THEN {Elem("success", <<"t", "e", "s", "t">>), Elem("error", TypeErrorMsg)}
    ELSE {Elem("success", <<"t", "e", "s", "t">>), Elem("info", Take(r.val, TestEchoLen))}

TestApi ==
    /\ pc = "test_api"
    /\ IF pressed = "test_api"
       THEN \E r \in Replies :
              /\ requests' = Append(requests, Request("test", TestPrompt))
              /\ responses' = Append(responses, r)
              /\ Shown(TestApiElems(r) \cup {Elem("info", <<"v", "e", "r", "i", "f", "y">>)})
              /\ handled' = [handled EXCEPT !.test = TestApiOutcome(r)]
       ELSE /\ Shown({Elem("info", <<"v", "e", "r", "i", "f", "y">>)})
            /\ UNCHANGED <<requests, responses, handled>>
    /\ pc' = "check_model"
    /\ UNCHANGED <<process, session_state, app_log, logs_file, runs, pressed, api_key, cfg,
                   model, run_log, pre>>

\* if not model: the run ends before the profile form
CheckModel ==
    /\ pc = "check_model"
    /\ IF model = NoModel
       THEN /\ Shown({Elem("error", Fmt(cfg.model_provider))})
            /\ pc' = "idle"
       ELSE /\ ui' = ui
            /\ pc' = "generate"
    /\ UNCHANGED <<process, session_state, app_log, logs_file, runs, pressed, api_key, cfg,
                   model, requests, responses, run_log, handled, pre>>

(***************************************************************************)
(* The profile form and the generate button.                               *)
(***************************************************************************)
UpperCase ==
    <<"A", "B", "C", "D", "E", "F", "G", "H", "I", "J", "K", "L", "M", "N", "O", "P", "Q",
      "R", "S", "T", "U", "V", "W", "X", "Y", "Z">>
LowerCase ==
    <<"a", "b", "c", "d", "e", "f", "g", "h", "i", "j", "k", "l", "m", "n", "o", "p", "q",
      "r", "s", "t", "u", "v", "w", "x", "y", "z">>

\* s.lower()
Lower(s) ==
    [i \in 1..Len(s) |->
        IF \E j \in 1..26 : UpperCase[j] = s[i]
        THEN LowerCase[CHOOSE j \in 1..26 : UpperCase[j] = s[i]]
        ELSE s[i]]

\* the f-string user_profile
FormatProfile(p) ==
    <<"a", ":">> \o Digits(p.age) \o <<"\n", "w", ":">> \o Float1(p.weight) \o <<"k", "g">>
      \o <<"\n", "h", ":">> \o Float1(p.height) \o <<"c", "m">>
      \o <<"\n", "s", ":">> \o p.sex \o <<"\n", "l", ":">> \o p.activity_level
      \o <<"\n", "d", ":">> \o p.dietary_preferences \o <<"\n", "g", ":">> \o p.fitness_goals

\* 年龄={age}, 体重={weight}, 身高={height}, 性别={sex}
FormatUserConfig(p) ==
    Digits(p.age) \o <<",">> \o Float1(p.weight) \o <<",">> \o Float1(p.height) \o <<",">> \o p.sex

\* the dicts built from the two responses: one generated text, two fixed texts
DietaryPlan(content) ==
    [why_this_plan_works |-> <<"w", "h", "y">>, meal_plan |-> content,
     important_considerations |-> <<"c", "a", "r", "e">>]

FitnessPlan(content) ==
    [goals |-> <<"g", "o", "a", "l">>, routine |-> content, tips |-> <<"t", "i", "p">>]

\* display_dietary_plan / display_fitness_plan
display_dietary_plan(plan) ==
    { Elem("why_this_plan_works", Fmt(Get(plan, "why_this_plan_works", <<"n", "/", "a">>))),
      Elem("meal_plan", Get(plan, "meal_plan", <<"n", "/", "a">>)),
      Elem("important_considerations", Get(plan, "important_considerations", EmptyStr)) }

display_fitness_plan(plan) ==
    { Elem("goals", Fmt(Get(plan, "goals", <<"n", "/", "a">>))),
      Elem("routine", Get(plan, "routine", <<"n", "/", "a">>)),
      Elem("tips", Get(plan, "tips", EmptyStr)) }

\* the response check after each run(): a response, with a content attribute
ResponseUsable(r) == HasContent(r)

\* the message of the exception the try block ends with, NoneVal when it ends without
GenerateError(r1, r2) ==
    IF r1.kind = "raise" THEN r1.val
    ELSE IF ~ResponseUsable(r1) THEN DietaryEmptyMsg
    ELSE IF r2.kind = "raise" THEN r2.val
    ELSE IF ~ResponseUsable(r2) THEN FitnessEmptyMsg
    ELSE NoneVal

\* a slip: the fitness call is made before the dietary response is looked at
GenerateRequestsUnchecked(user_profile, r1) ==
    IF r1.kind # "raise"
    THEN <<Request("dietary", user_profile), Request("fitness", user_profile)>>
    ELSE <<Request("dietary", user_profile)>>

\* a slip: the fitness call is made first
GenerateRequestsFitnessFirst(user_profile, r1) ==
    IF r1.kind # "raise" /\ r1.kind = "content"
    THEN <<Request("fitness", user_profile), Request("dietary", user_profile)>>
    ELSE <<Request("fitness", user_profile)>>

\* the run() calls of the try block: the fitness call follows a usable dietary response
GenerateRequests(user_profile, r1) ==
    IF r1.kind # "raise" /\ ResponseUsable(r1)
    THEN <<Request("dietary", user_profile), Request("fitness", user_profile)>>
    ELSE <<Request("dietary", user_profile)>>

\* what the run() calls of the try block did, call by call
GenerateResponses(r1, r2) ==
    IF r1.kind # "raise" /\ ResponseUsable(r1) THEN <<r1, r2>> ELSE <<r1>>

\* a slip: the network test comes first
GenerateAdviceNetworkFirst(msg) ==
    IF Contains(Lower(msg), <<"t", "i", "m", "e", "o", "u", "t">>)
         \/ Contains(Lower(msg), <<"c", "o", "n", "n", "e", "c", "t", "i", "o", "n">>)
    THEN {Elem("warning", <<"n", "e", "t">>)}
    ELSE IF Contains(msg, <<"4", "0", "0">>)
              \/ Contains(msg, <<"I", "n", "v", "a", "l", "i", "d", "R", "e", "q", "u", "e", "s", "t">>)
    THEN {Elem("warning", <<"a", "p", "i">>)}
    ELSE {Elem("warning", <<"g", "e", "n", "e", "r", "i", "c">>)}

\* the advice shown with a generation error
GenerateAdvice(msg) ==
    IF Contains(msg, <<"4", "0", "0">>)
         \/ Contains(msg, <<"I", "n", "v", "a", "l", "i", "d", "R", "e", "q", "u", "e", "s", "t">>)
    THEN {Elem("warning", <<"a", "p", "i">>)}
    ELSE IF Contains(Lower(msg), <<"t", "i", "m", "e", "o", "u", "t">>)
              \/ Contains(Lower(msg), <<"c", "o", "n", "n", "e", "c", "t", "i", "o", "n">>)
    THEN {Elem("warning", <<"n", "e", "t">>)}
    ELSE {Elem("warning", <<"g", "e", "n", "e", "r", "i", "c">>)}

\* a slip: the history is not reset
StorePlansKeepingHistory(st, c1, c2) ==
    [st EXCEPT !.dietary_plan = DietaryPlan(c1), !.fitness_plan = FitnessPlan(c2),
               !.plans_generated = TRUE]

\* the session state a successful generation leaves
StorePlans(st, c1, c2) ==
    [st EXCEPT !.dietary_plan = DietaryPlan(c1), !.fitness_plan = FitnessPlan(c2),
               !.plans_generated = TRUE, !.qa_pairs = <<>>]

\* a slip: the dietary plan is stored as soon as its response has arrived
FailedGenerationKeepsDiet(st, r1) ==
    IF r1.kind # "raise" /\ ResponseUsable(r1)
    THEN [st EXCEPT !.dietary_plan = DietaryPlan(r1.val)]
    ELSE st

\* a slip: a failed generation marks the session as having no plans
FailedGenerationClearsPlans(st, r1) == [st EXCEPT !.plans_generated = FALSE]

\* the session state a failed generation leaves: nothing is assigned before both
\* responses have passed their checks
FailedGeneration(st, r1) == st

GenerateInfoElems(r1) ==
    {Elem("info", <<"d", "i", "e", "t">>)}
      \cup IF r1.kind # "raise" /\ ResponseUsable(r1) THEN {Elem("info", <<"f", "i", "t">>)} ELSE {}

GenerateFailureEntries(p, msg) ==
    { Entry("generate_failed", EmptyStr), Entry("generate_user_config", EmptyStr),
      Entry("generate_error_msg", EmptyStr), Entry("generate_traceback", EmptyStr) }

GenerateFailureElems(p, msg) ==
    { Elem("error", <<"g", "e", "n", "e", "r", "a", "t", "e">>), Elem("error", msg),
      Elem("code", msg), Elem("markdown", FormatUserConfig(p)) } \cup GenerateAdvice(msg)

Generate ==
    /\ pc = "generate"
    /\ IF pressed = "generate"
       THEN \E p \in Profiles, r1 \in Replies, r2 \in Replies, logs_ok \in BOOLEAN :
              LET user_profile == FormatProfile(p)
                  msg == GenerateError(r1, r2)
                  started == {Entry("plus", EmptyStr), Entry("user_profile", EmptyStr)}
              IN  /\ requests' = requests \o GenerateRequests(user_profile, r1)
                  /\ responses' = responses \o GenerateResponses(r1, r2)
                  /\ IF msg = NoneVal
                     THEN /\ session_state' = StorePlans(session_state, r1.val, r2.val)
                          /\ Shown({Elem("form", EmptyStr)} \cup GenerateInfoElems(r1)
                                     \cup display_dietary_plan(DietaryPlan(r1.val))
                                     \cup display_fitness_plan(FitnessPlan(r2.val)))
                          /\ Logged(started \cup {Entry("generate_ok", EmptyStr)})
                          /\ logs_file' = logs_file
                          /\ handled' = [handled EXCEPT !.generate = "stored"]
                     ELSE /\ session_state' = FailedGeneration(session_state, r1)
                          /\ Shown({Elem("form", EmptyStr)} \cup GenerateInfoElems(r1)
                                     \cup GenerateFailureElems(p, msg))
                          /\ IF logs_ok
                             THEN /\ logs_file' = logs_file \cup
                                        {Entry("generate_error", EmptyStr), Entry("traceback", EmptyStr)}
                                  /\ Logged(started \cup GenerateFailureEntries(p, msg))
                             ELSE /\ logs_file' = logs_file
                                  /\ Logged(started \cup GenerateFailureEntries(p, msg)
                                              \cup {Entry("logs_write_failed", EmptyStr)})
                          /\ handled' = [handled EXCEPT !.generate = "raised"]
       ELSE /\ Shown({Elem("form", EmptyStr)})
            /\ UNCHANGED <<session_state, app_log, logs_file, requests, responses, run_log,
                           handled>>
    /\ pc' = "follow_up"
    /\ UNCHANGED <<process, runs, pressed, api_key, cfg, model, pre>>

(***************************************************************************)
(* The follow-up question box, shown once plans exist.                     *)
(***************************************************************************)
\* a slip: the question box is shown whether or not plans exist
FollowUpAlways(st) == TRUE

\* if st.session_state.plans_generated
FollowUpReachable(st) == st.plans_generated

\* a slip: the context holds the meal plan only
FullContextWithoutRoutine(st, question) ==
    <<"D", ":">> \o Fmt(Get(st.dietary_plan, "meal_plan", EmptyStr)) \o <<"\n", "\n", "F", ":">>
      \o <<"\n", "Q", ":">> \o question

\* a slip: the question is sent whatever the box holds
QuestionAlwaysGiven(question_input) == TRUE

\* if question_input
QuestionGiven(question_input) == Truthy(question_input)

\* context and full_context
FullContext(st, question) ==
    <<"D", ":">> \o Fmt(Get(st.dietary_plan, "meal_plan", EmptyStr)) \o <<"\n", "\n", "F", ":">>
      \o Fmt(Get(st.fitness_plan, "routine", EmptyStr)) \o <<"\n", "Q", ":">> \o question

\* the answer of a response: its content, or the apology when it has none
Answer(r) == IF r.kind = "content" THEN r.val ELSE ApologyAnswer

\* a slip: with the Gemini client a response without content is dropped, with the
\* OpenAI-compatible client it is answered with the apology
AppendAnswerByProvider(st, question, r) ==
    IF r.kind = "raise" \/ (model.kind = "Gemini" /\ r.kind # "content") THEN st
    ELSE [st EXCEPT !.qa_pairs =
                      Append(@, <<question, IF r.kind = "content" THEN r.val ELSE ApologyAnswer>>)]

\* a slip: the newest pair is put at the head of the history
PrependAnswer(st, question, r) ==
    IF r.kind = "raise" THEN st
    ELSE [st EXCEPT !.qa_pairs =
                      << <<question, IF r.kind = "content" THEN r.val ELSE ApologyAnswer>> >> \o @]

\* the session state after the call of the follow-up handler has returned r
AppendAnswer(st, question, r) ==
    IF r.kind = "raise" THEN st
    ELSE [st EXCEPT !.qa_pairs = Append(@, <<question, Answer(r)>>)]

\* the question/answer history below the box
HistoryElems(st) ==
    UNION { {Elem("question", st.qa_pairs[i][1]), Elem("answer", Fmt(st.qa_pairs[i][2]))} :
              i \in 1..Len(st.qa_pairs) }

FollowUp ==
    /\ pc = "follow_up"
    /\ IF FollowUpReachable(session_state)
       THEN IF pressed = "follow_up"
            THEN \E question \in Questions, r \in Replies :
                   IF QuestionGiven(question)
                   THEN /\ requests' =
                             Append(requests, Request("qa", FullContext(session_state, question)))
                        /\ responses' = Append(responses, r)
                        /\ session_state' = AppendAnswer(session_state, question, r)
                        /\ Shown({Elem("qa_box", EmptyStr)} \cup HistoryElems(session_state')
                                   \cup IF r.kind = "raise" THEN {Elem("error", r.val)} ELSE {})
                        /\ handled' = [handled EXCEPT !.follow_up =
                                          IF r.kind = "raise" THEN "raised" ELSE "appended"]
                   ELSE /\ Shown({Elem("qa_box", EmptyStr)} \cup HistoryElems(session_state))
                        /\ handled' = [handled EXCEPT !.follow_up = "no_question"]
                        /\ UNCHANGED <<requests, responses, session_state>>
            ELSE /\ Shown({Elem("qa_box", EmptyStr)} \cup HistoryElems(session_state))
                 /\ UNCHANGED <<requests, responses, session_state, handled>>
       ELSE UNCHANGED <<requests, responses, session_state, handled, ui>>
    /\ pc' = "idle"
    /\ UNCHANGED <<process, app_log, logs_file, runs, pressed, api_key, cfg, model, run_log,
                   pre>>

Script ==
    \/ LoadApiKey
    \/ StartMain
    \/ SelectConfig
    \/ InitModel
    \/ TestApi
    \/ CheckModel
    \/ Generate
    \/ FollowUp

Next == Rerun(MaxRuns) \/ Script

Spec == Init /\ [][Next]_vars

NextConfig == Rerun(MaxConfigRuns) \/ Script

SpecConfig == InitConfig /\ [][NextConfig]_vars

(***************************************************************************)
(* The base URL field takes any text.  To look at the normalisation of the *)
(* URL on its own, a run of the latest variant is taken up where the       *)
(* sidebar has returned (OpenAI provider, a key, the text of the URL       *)
(* field) and the client is about to be built.                             *)
(***************************************************************************)
\* the characters a pasted URL is made of here: blank, "@", "/", a letter
UrlAlphabet == {" ", "@", "/", "p"}

\* the texts of the base URL field, up to MaxUrlLen characters
UrlInputs == UNION { [1..n -> UrlAlphabet] : n \in 0..MaxUrlLen }

SidebarDeployment ==
    [variant |-> "latest", args |-> Flags(2, DefaultArgs), secrets |-> NoneVal,
     environ |-> NoEnviron]

\* the first run of a session, after display_sidebar() has returned
InitUrl ==
    \E url \in UrlInputs :
        LET c == display_sidebar(OpenAI, KeyU, url, DeepseekOption)
            lines == { Entry("no_key_configured", EmptyStr), Entry("startup", EmptyStr),
                       Entry("session_initialised", EmptyStr) } \cup ConfigEntries(c)
        IN  /\ variant = SidebarDeployment.variant
            /\ args = SidebarDeployment.args
            /\ secrets = SidebarDeployment.secrets
            /\ environ = SidebarDeployment.environ
            /\ session_state = NewSession
            /\ app_log = lines
            /\ logs_file = {}
            /\ runs = 1
            /\ pc = "init"
            /\ pressed = "none"
            /\ api_key = LoadedApiKey(SidebarDeployment.secrets, SidebarDeployment.environ)
            /\ cfg = c
            /\ model = NoModel
            /\ ui = SidebarElems(OpenAI, KeyU)
            /\ requests = <<>>
            /\ responses = <<>>
            /\ run_log = lines
            /\ handled = NoHandler
            /\ pre = EmptyDict

NextUrl == InitModel

SpecUrl == InitUrl /\ [][NextUrl]_vars

(***************************************************************************)
(* Properties.                                                             *)
(***************************************************************************)
\* the session state has been set up (main() has passed its first lines once)
Initialised == ~SessionMissing(session_state)

\* the agents the run() calls of this run went to, in order
Agents == [i \in 1..Len(requests) |-> requests[i].agent]

\* st.error has been called in this run
ErrorShown == \E e \in ui : e.kind = "error"

\* a panel of this run shows a non-empty text under the given heading
PanelShowsText(kind) == \E e \in ui : e.kind = kind /\ Truthy(e.arg)

\* the session state the handlers of this run started from
Before == IF SessionMissing(pre) THEN NewSession ELSE pre

\* C1: a generate action that has run ends with non-empty text in both plan
\* panels (meal_plan and routine) or with an error shown; it never ends with an
\* empty plan text and no error.
C1_GenerateNeverSilent ==
    handled.generate # "skip" =>
        \/ PanelShowsText("meal_plan") /\ PanelShowsText("routine")
        \/ ErrorShown

\* C2: a follow-up model call and an append to qa_pairs happen only in a run in
\* which plans_generated is true; while plans_generated is false qa_pairs is empty.
C2_NoFollowUpBeforePlan ==
    Initialised =>
        /\ ~session_state.plans_generated => session_state.qa_pairs = <<>>
        /\ (\E i \in 1..Len(requests) : requests[i].agent = "qa") =>
              session_state.plans_generated
        /\ handled.follow_up # "skip" => Before.plans_generated

\* C2, its case: the follow-up button was pressed in a run that built its model
\* and reached the end with no plan in the session; nothing was asked or appended.
C2_Witness ==
    /\ pc = "idle"
    /\ pressed = "follow_up"
    /\ handled.init = "ok"
    /\ Initialised
    /\ ~session_state.plans_generated
    /\ requests = <<>>
    /\ session_state.qa_pairs = <<>>

\* C3: right after a generate action that stored new plans, qa_pairs is the empty
\* list, whatever it held before.
C3_GenerateClearsHistory ==
    handled.generate = "stored" =>
        /\ session_state.qa_pairs = <<>>
        /\ session_state.plans_generated

\* C3, its case: plans were stored in a run that started with a non-empty history.
C3_Witness ==
    /\ handled.generate = "stored"
    /\ Before.qa_pairs # <<>>
    /\ session_state.qa_pairs = <<>>

\* C4: a generate action that failed (an exception, a missing response, a response
\* without content, in the dietary or in the fitness call) leaves dietary_plan,
\* fitness_plan, plans_generated and qa_pairs as they were and issues no request
\* twice; a follow-up whose call raised leaves qa_pairs as it was.
C4_FailureLeavesStateUntouched ==
    /\ handled.generate = "raised" =>
          /\ session_state = Before
          /\ \A i, j \in 1..Len(requests) : requests[i].agent = requests[j].agent => i = j
    /\ handled.follow_up = "raised" =>
          /\ session_state.qa_pairs = Before.qa_pairs
          /\ Len(requests) = 1

\* C4, its case: the dietary call succeeded and the fitness call failed, in a
\* session that already held plans and a history.
C4_Witness ==
    /\ handled.generate = "raised"
    /\ Agents = <<"dietary", "fitness">>
    /\ Before.plans_generated
    /\ Before.qa_pairs # <<>>

\* C5 as stated: the handling of a button press issues exactly one backend request.
C5_OneRequestPerPress ==
    (pc = "idle" /\ (handled.test # "skip" \/ handled.generate # "skip"
                       \/ handled.follow_up # "skip"))
        => Len(requests) = 1

\* C5 as amended: the API test issues exactly one request; generate issues the
\* dietary request and, only when that returned a response with content, the
\* fitness request (two in a successful generation, one when the dietary call
\* raised or returned nothing usable); the follow-up issues exactly one request for
\* a non-empty question and none for an empty one.  Never more than two.
C5_RequestsPerPress ==
    /\ Len(requests) <= 2
    /\ handled.test # "skip" => Agents = <<"test">>
    /\ handled.generate = "stored" => Agents = <<"dietary", "fitness">>
    /\ handled.generate = "raised" =>
          /\ Agents \in {<<"dietary">>, <<"dietary", "fitness">>}
          /\ (Elem("error", DietaryEmptyMsg) \in ui) => Agents = <<"dietary">>
          /\ (Elem("error", FitnessEmptyMsg) \in ui) => Agents = <<"dietary", "fitness">>
    /\ handled.follow_up \in {"appended", "raised"} => Agents = <<"qa">>
    /\ handled.follow_up = "no_question" => requests = <<>>
    /\ (handled.test = "skip" /\ handled.generate = "skip"
          /\ handled.follow_up \in {"skip", "no_question"}) => requests = <<>>

\* C5, its case: a successful generation has made its two round trips.
C5_Witness ==
    /\ pc = "idle"
    /\ pressed = "generate"
    /\ handled.generate = "stored"
    /\ Len(requests) = 2

\* the lines a failure handler writes to app.log
FailureTags ==
    { "init_failed", "init_error_msg", "init_traceback", "generate_failed",
      "generate_error_msg", "generate_traceback" }

\* C6: an exception raised in the model initialisation, the API test, the generate
\* action or the follow-up action always ends in an error on the page and a line in
\* the log.
C6_FailuresShownAndLogged ==
    (\E h \in DOMAIN handled : handled[h] = "raised") =>
        /\ ErrorShown
        /\ \E l \in run_log : l.tag \in FailureTags

\* the profile form and the generate button are on the page
FormShown == \E e \in ui : e.kind = "form"

\* C7: in a run with no API key for the selected provider no backend client is
\* built, the profile form and the generate button are not reached and no model
\* call is made.
C7_NoKeyBlocksEverything ==
    ~Truthy(cfg.api_key_to_use) =>
        /\ model = NoModel
        /\ ~FormShown
        /\ requests = <<>>

\* a text holds the key, or is a part of it
LeaksKey(text, key) == text # <<>> /\ (Contains(text, key) \/ Contains(key, text))

\* the provider names, model identifiers and base URLs of the model
ConfigTexts ==
    { Gemini, OpenAI, GeminiFlash, Gpt4o, DeepseekVolces, GlmFlash, OpenAIUrl, AiStudioUrl,
      StrayUrl }

\* C8: no line of app.log or of "logs" holds the API key, in whole or in part, or
\* the provider name, the model identifier or the base URL.
C8_ConfigNeverPersisted ==
    \A l \in app_log \cup logs_file :
        /\ \A k \in Keys : ~LeaksKey(l.arg, k)
        /\ l.arg \notin ConfigTexts

\* the key the stated order yields: the sidebar field, then the environment, then
\* the secrets file
PrecedenceKey ==
    IF args.type # 1 /\ Truthy(cfg.api_key_to_use) THEN cfg.api_key_to_use
    ELSE IF Truthy(environ.API_KEY) THEN environ.API_KEY
    ELSE IF Truthy(environ.OPENAI_API_KEY) THEN environ.OPENAI_API_KEY
    ELSE secrets

\* C9 as stated: the key passed to the backend client of the latest variant is the
\* one of the sidebar field if given, else the one of the environment if given,
\* else the one of the secrets file.
C9_UiThenEnvThenSecrets ==
    (variant = "latest" /\ model # NoModel) => model.api_key = PrecedenceKey

\* C9 as amended: with --type 1 the key passed to the backend client is the
\* API_KEY entry of the secrets file whenever the file has one (even an empty one),
\* otherwise $API_KEY, otherwise $OPENAI_API_KEY, and the sidebar is not shown; with
\* another --type it is the non-empty key of the sidebar field, whatever the
\* environment and the secrets file hold.
C9_KeySource ==
    (variant = "latest" /\ model # NoModel) =>
        /\ args.type = 1 =>
              model.api_key =
                  IF secrets # NoneVal THEN secrets
                  ELSE IF Truthy(environ.API_KEY) THEN environ.API_KEY
                  ELSE environ.OPENAI_API_KEY
        /\ args.type # 1 => model.api_key \in SidebarKeys \ {EmptyStr}

\* C9, its case: the secrets file and the environment both supply a key and a
\* client has been built.
C9_Witness ==
    /\ variant = "latest"
    /\ args.type = 1
    /\ secrets = KeyS
    /\ environ.API_KEY = KeyE
    /\ model # NoModel
    /\ model.api_key = KeyS

\* the provider a client talks to
ClientProvider(m) == IF m.kind = "Gemini" THEN Gemini ELSE OpenAI

\* C10: the backend client built without the sidebar has the provider, the model
\* identifier, the base URL and the key of the command-line flags.
C10_FlagsSelectClient ==
    (variant = "latest" /\ args.type = 1 /\ model # NoModel) =>
        /\ ClientProvider(model) = args.model_provider
        /\ model.id = args.model_name
        /\ Get(model, "base_url", NoneVal) = args.base_url
        /\ model.api_key = args.api_key

\* the question typed in this run, read back from the follow-up prompt
AskedQuestion ==
    CHOOSE q \in Questions :
        \/ requests = <<>>
        \/ requests[1].prompt = FullContext(Before, q)

\* the session state a run must end with, told from the state it began with, the
\* button pressed, whether a client was built and what the backend calls did; the
\* provider, the model identifier, the URL and the key are not looked at
ProviderFreeOutcome ==
    IF handled.init # "ok" \/ responses = <<>> THEN Before
    ELSE IF pressed = "generate"
    THEN IF Len(responses) = 2 /\ responses[1].kind = "content" /\ responses[2].kind = "content"
         THEN [dietary_plan |-> [why_this_plan_works |-> <<"w", "h", "y">>,
                                 meal_plan |-> responses[1].val,
                                 important_considerations |-> <<"c", "a", "r", "e">>],
               fitness_plan |-> [goals |-> <<"g", "o", "a", "l">>,
                                 routine |-> responses[2].val, tips |-> <<"t", "i", "p">>],
               qa_pairs |-> <<>>, plans_generated |-> TRUE]
         ELSE Before
    ELSE IF pressed = "follow_up" /\ responses[1].kind # "raise"
    THEN [Before EXCEPT !.qa_pairs =
              Append(@, << AskedQuestion,
                           IF responses[1].kind = "content" THEN responses[1].val
                           ELSE ApologyAnswer >>)]
    ELSE Before

\* C11: the session state of a run is a function of the state the run began with,
\* the button, whether a client was built and the replies of the backend, the same
\* function for the Gemini and for the OpenAI-compatible client; the provider shows
\* only in the client every request is sent to.  The stored plans have the same
\* three keys each, the prompts are the same texts and the profile form is shown in
\* every run that built a client, whichever the provider.
C11_ProviderChangesOnlyDispatch ==
    Initialised =>
        /\ session_state \in {Before, ProviderFreeOutcome}
        /\ pc = "idle" => session_state = ProviderFreeOutcome
        /\ DOMAIN session_state.dietary_plan \in
              {{}, {"why_this_plan_works", "meal_plan", "important_considerations"}}
        /\ DOMAIN session_state.fitness_plan \in {{}, {"goals", "routine", "tips"}}
        /\ \A i \in 1..Len(requests) :
              /\ requests[i].model = model
              /\ requests[i].agent \in {"dietary", "fitness"} =>
                    \E p \in Profiles : requests[i].prompt = FormatProfile(p)
              /\ requests[i].agent = "qa" =>
                    \E q \in Questions : requests[i].prompt = FullContext(Before, q)
        /\ (handled.init = "ok" /\ pc \in {"follow_up", "idle"}) => FormShown

\* C11, its case: the OpenAI-compatible client returned an object without content to
\* a follow-up question, and the pair with the apology was appended as it is with
\* the Gemini client.
C11_Witness ==
    /\ pc = "idle"
    /\ model.kind = "OpenAIChat"
    /\ pressed = "follow_up"
    /\ responses # <<>>
    /\ responses[1].kind = "nocontent"
    /\ session_state.qa_pairs = Append(Before.qa_pairs, <<AskedQuestion, ApologyAnswer>>)

\* C12: in every step of a session (a script re-run, a failed generation, a follow-up
\* question, any other step) plans_generated stays true once it is true, dietary_plan
\* and fitness_plan stay non-empty once they are, plans_generated is true exactly
\* when the two plans are stored, and the plans change only in the step of a
\* successful generation, which assigns both.
C12_PlansPersist ==
    [][ Initialised =>
          /\ session_state.plans_generated => session_state'.plans_generated
          /\ session_state.dietary_plan # EmptyDict => session_state'.dietary_plan # EmptyDict
          /\ session_state.fitness_plan # EmptyDict => session_state'.fitness_plan # EmptyDict
          /\ session_state'.plans_generated <=>
                (session_state'.dietary_plan # EmptyDict /\ session_state'.fitness_plan # EmptyDict)
          /\ ( \/ session_state'.dietary_plan # session_state.dietary_plan
               \/ session_state'.fitness_plan # session_state.fitness_plan
               \/ session_state'.plans_generated # session_state.plans_generated ) =>
                /\ pc = "generate"
                /\ handled'.generate = "stored"
                /\ session_state'.dietary_plan.meal_plan = responses'[1].val
                /\ session_state'.fitness_plan.routine = responses'[2].val ]_vars

\* C12, its case: a later successful generation has replaced both stored plans.
C12_Witness ==
    /\ handled.generate = "stored"
    /\ Before.plans_generated
    /\ session_state.dietary_plan # Before.dietary_plan
    /\ session_state.fitness_plan # Before.fitness_plan

\* C13: a step that is not a successful generation leaves qa_pairs as it is or puts
\* exactly one (question, answer) pair at its end, the question being the one just
\* asked and the answer the content of the reply or the apology; so the history
\* only grows between two successful generations, in the order of the questions.
C13_HistoryAppendOnly ==
    [][ (Initialised /\ ~(pc = "generate" /\ handled'.generate = "stored")) =>
          \/ session_state'.qa_pairs = session_state.qa_pairs
          \/ /\ pc = "follow_up"
             /\ handled'.follow_up = "appended"
             /\ Len(session_state'.qa_pairs) = Len(session_state.qa_pairs) + 1
             /\ SubSeq(session_state'.qa_pairs, 1, Len(session_state.qa_pairs))
                   = session_state.qa_pairs
             /\ LET pair == session_state'.qa_pairs[Len(session_state'.qa_pairs)]
                    reply == responses'[Len(responses')]
                IN  /\ Truthy(pair[1])
                    /\ requests'[Len(requests')].prompt = FullContext(session_state, pair[1])
                    /\ pair[2] = IF reply.kind = "content" THEN reply.val ELSE ApologyAnswer ]_vars

\* C13, its case: two different questions were asked one after the other and the
\* history holds their pairs in that order.
C13_Witness ==
    /\ Initialised
    /\ handled.follow_up = "appended"
    /\ Len(session_state.qa_pairs) = 2
    /\ Len(Before.qa_pairs) = 1
    /\ Before.qa_pairs[1] = session_state.qa_pairs[1]
    /\ session_state.qa_pairs[1][1] # session_state.qa_pairs[2][1]
    /\ session_state.qa_pairs[2][1] = AskedQuestion

\* C14: whenever a dietary, fitness or follow-up call has returned nothing or an
\* object without a content attribute, the page shows an error and the session
\* state is as it was when the run began: no plan text and no answer was stored for
\* that response.
C14_MalformedResponseSurfaced ==
    (\E i \in 1..Len(responses) :
        /\ requests[i].agent \in {"dietary", "fitness", "qa"}
        /\ responses[i].kind \in {"none", "nocontent"}) =>
        /\ ErrorShown
        /\ session_state = Before

\* the URL typed, without its "@" characters and without the blanks around it
TrimmedUrl == Strip(RemoveChar(cfg.base_url, "@"))

\* C15: the base URL of the OpenAI-compatible client has no blank at either end and
\* no "@", it is the typed URL without its "@" and surrounding blanks, with one "/"
\* added only when that text does not end in "/", and normalising it again gives the
\* same URL.
C15_BaseUrlNormalised ==
    model.kind = "OpenAIChat" =>
        /\ Strip(model.base_url) = model.base_url
        /\ ~Contains(model.base_url, <<"@">>)
        /\ EndsWith(model.base_url, "/")
        /\ model.base_url =
              IF EndsWith(TrimmedUrl, "/") THEN TrimmedUrl ELSE TrimmedUrl \o <<"/">>
        /\ clean_base_url(model.base_url) = model.base_url

\* C16: a step that sends a follow-up prompt sends the stored meal_plan text, then
\* the stored routine text, then the question (each under its fixed label), taken
\* from a session whose plans were stored by a generation; and the stored texts are
\* at all times those of the last generation that succeeded, because a step changes
\* them only by storing the contents of the two replies of a generation whose both
\* calls passed.
C16_FollowUpPromptUsesStoredPlans ==
    [][ Initialised =>
          /\ (Len(requests') > Len(requests) /\ requests'[Len(requests')].agent = "qa") =>
                /\ session_state.plans_generated
                /\ "meal_plan" \in DOMAIN session_state.dietary_plan
                /\ "routine" \in DOMAIN session_state.fitness_plan
                /\ \E q \in Questions \ {EmptyStr} :
                      requests'[Len(requests')].prompt =
                          <<"D", ":">> \o Fmt(session_state.dietary_plan.meal_plan)
                            \o <<"\n", "\n", "F", ":">> \o Fmt(session_state.fitness_plan.routine)
                            \o <<"\n", "Q", ":">> \o q
          /\ (session_state'.dietary_plan # session_state.dietary_plan
                 \/ session_state'.fitness_plan # session_state.fitness_plan) =>
                /\ Len(responses') = 2
                /\ responses'[1].kind = "content" /\ responses'[2].kind = "content"
                /\ session_state'.dietary_plan.meal_plan = responses'[1].val
                /\ session_state'.fitness_plan.routine = responses'[2].val ]_vars

\* C16, its case: in a session that has seen a generation succeed and a generation
\* fail, a follow-up prompt went out with the stored plan texts.
C16_Witness ==
    /\ Initialised
    /\ Entry("generate_ok", EmptyStr) \in app_log
    /\ Entry("generate_failed", EmptyStr) \in app_log
    /\ Agents = <<"qa">>
    /\ Truthy(Before.dietary_plan.meal_plan)
    /\ Truthy(Before.fitness_plan.routine)
    /\ requests[1].prompt =
          <<"D", ":">> \o Before.dietary_plan.meal_plan \o <<"\n", "\n", "F", ":">>
            \o Before.fitness_plan.routine \o <<"\n", "Q", ":">> \o AskedQuestion

\* the remediation headings on the page
Advice == { e.arg : e \in { x \in ui : x.kind = "warning" } }

\* the error messages whose traceback is on the page
ErrorTexts == { e.arg : e \in { x \in ui : x.kind = "code" } }

\* a text holds the word, in any letter case
HoldsAnyCase(text, word) ==
    \E i \in 0..(Len(text) - Len(word)) :
        Lower(SubSeq(text, i + 1, i + Len(word))) = word

\* C17: a failed generate action shows exactly one remediation heading: the API
\* advice when the message holds "400" or "InvalidRequest"; otherwise the network
\* advice when it holds "timeout" or "connection" in any letter case; otherwise the
\* generic advice.
C17_OneAdviceBucket ==
    handled.generate = "raised" =>
      /\ ErrorTexts # {}
      /\ \A msg \in ErrorTexts :
            Advice =
                IF Contains(msg, <<"4", "0", "0">>)
                     \/ Contains(msg, <<"I", "n", "v", "a", "l", "i", "d", "R", "e", "q", "u", "e",
                                        "s", "t">>)
                THEN {<<"a", "p", "i">>}
                ELSE IF HoldsAnyCase(msg, <<"t", "i", "m", "e", "o", "u", "t">>)
                          \/ HoldsAnyCase(msg, <<"c", "o", "n", "n", "e", "c", "t", "i", "o", "n">>)
                THEN {<<"n", "e", "t">>}
                ELSE {<<"g", "e", "n", "e", "r", "i", "c">>}

\* C17, its case: the message holds both "400" and "Timeout", and the API advice
\* alone is on the page.
C17_Witness ==
    /\ handled.generate = "raised"
    /\ ErrorTexts = {<<"4", "0", "0", " ", "T", "i", "m", "e", "o", "u", "t">>}
    /\ Advice = {<<"a", "p", "i">>}

\* C18: the requests of a generate action are the dietary request alone or the
\* dietary request followed by the fitness request with the same profile text; the
\* fitness request is there exactly when the dietary call returned a response with a
\* content attribute, and not when it raised or returned nothing usable.
C18_DietaryBeforeFitness ==
    handled.generate # "skip" =>
        /\ Len(requests) = Len(responses)
        /\ Agents \in {<<"dietary">>, <<"dietary", "fitness">>}
        /\ \E p \in Profiles : \A i \in 1..Len(requests) : requests[i].prompt = FormatProfile(p)
        /\ Len(requests) = 2 <=> responses[1].kind = "content"
        /\ responses[1].kind \in {"raise", "none", "nocontent"} => Agents = <<"dietary">>

\* C18, its case: the dietary call returned an object without content and the
\* action ended with that one request.
C18_Witness ==
    /\ handled.generate = "raised"
    /\ Len(responses) = 1
    /\ responses[1].kind = "nocontent"
    /\ Agents = <<"dietary">>

\* C19: a run in which the follow-up button was pressed with an empty question makes
\* no model call, shows no error and leaves qa_pairs, dietary_plan, fitness_plan and
\* plans_generated as they were; no pair of qa_pairs ever has the empty string as its
\* question.
C19_EmptyQuestionIsNoOp ==
    Initialised =>
        /\ handled.follow_up = "no_question" =>
              /\ requests = <<>>
              /\ responses = <<>>
              /\ ~ErrorShown
              /\ session_state = Before
        /\ \A i \in 1..Len(session_state.qa_pairs) : session_state.qa_pairs[i][1] # EmptyStr

\* C19, its case: the button was pressed with an empty question in a session that
\* holds plans and a history.
C19_Witness ==
    /\ pc = "idle"
    /\ pressed = "follow_up"
    /\ handled.follow_up = "no_question"
    /\ Before.plans_generated
    /\ Before.qa_pairs # <<>>
    /\ session_state = Before

====
